---- MODULE Spec2Model ----
(***************************************************************************)
(* API key lifecycle of the ml-api-gateway: the users and user_api_keys    *)
(* tables, APIKeyManager (generate_key, save_key, reset_key,               *)
(* delete_old_key), verify_api_key, verify_user and create_user.           *)
(*                                                                         *)
(* Time: `now` is the reading of datetime.now().  The code reads the clock *)
(* and never waits for it to advance, so two handlers may read the same    *)
(* value (clock resolution, parallel workers); the clock advances by the   *)
(* separate action Tick.  One tick is also the unit of the cleanup delay:  *)
(* asyncio.sleep(delay_minutes * 60) is delay_minutes ticks.               *)
(*                                                                         *)
(* Strings built by the code are modelled by their parts: an API key is    *)
(* <<prefix, digest>>, a digest is <<"sha256", input>>, a bcrypt hash is   *)
(* <<"bcrypt", password>>.                                                 *)
(***************************************************************************)
EXTENDS Integers, FiniteSets, Sequences, TLC

VARIABLES
    users,  \* rows of table users: [id, email, hashed_password]
    keys,   \* rows of table user_api_keys: [id, user_id, api_key, created_at]
    tasks,  \* cleanup tasks added by reset_key: the user, when the sleep
            \* ends (due), the rotation they belong to (at, old, new),
            \* whether they are sleeping, have deleted or have failed,
            \* the session they were given (db) and whether the request
            \* that owned that session has released it
    now,    \* the clock
    last,   \* the answer of the latest call (see Response)
    env,    \* os.environ: a function from the names that are set to
            \* their values
    calls   \* save_key calls that run concurrently, step by step: the
            \* user, what the call read, where it stands, what it returned

vars == <<users, keys, tasks, now, last, env, calls>>

----------------------------------------------------------------------------
(* Bounds of the model *)

MaxTime == 5

MaxKeys == 2

MaxRotations == 2

MaxUserId == 2

MaxCalls == 2

----------------------------------------------------------------------------
(* Inputs *)

Emails == {"user@email.com", "other@email.com"}

Passwords == {"User@123", "Sadeepa@2004"}

NoSuchUserId == 999

(* registrations offered to create_user; logins and resets may present   *)
(* any email with any password                                           *)
RegisterRequests ==
    {[email |-> "user@email.com", password |-> "User@123"],
     [email |-> "other@email.com", password |-> "Sadeepa@2004"]}

UserIds == (1 .. Cardinality(Emails)) \cup {NoSuchUserId}

----------------------------------------------------------------------------
(* Configuration and constants of the code *)

(* the environment of the test suite and of a configured deployment *)
TestEnv == [API_SALT |-> "test_salt", API_KEY_PREFIX |-> "sk_live_"]

(* environments in which each of the two names is unset, empty or set *)
EnvValues == {"", "test_salt", "sk_live_"}

Environments ==
    UNION {[names -> EnvValues] :
              names \in SUBSET {"API_SALT", "API_KEY_PREFIX"}}

(* variant: only an unset variable is refused, an empty one is accepted *)
load_private_salt_unset_only ==
    IF "API_SALT" \notin DOMAIN env
    THEN [raised |-> TRUE, value |-> ""]
    ELSE [raised |-> FALSE, value |-> env["API_SALT"]]

(* os.getenv(name) followed by `if not value: raise ValueError` *)
load_private_salt ==
    IF "API_SALT" \notin DOMAIN env \/ env["API_SALT"] = ""
    THEN [raised |-> TRUE, value |-> ""]
    ELSE [raised |-> FALSE, value |-> env["API_SALT"]]

load_key_prefix ==
    IF "API_KEY_PREFIX" \notin DOMAIN env \/ env["API_KEY_PREFIX"] = ""
    THEN [raised |-> TRUE, value |-> ""]
    ELSE [raised |-> FALSE, value |-> env["API_KEY_PREFIX"]]

(* APIKeyManager() raises ValueError *)
APIKeyManagerRaises == load_private_salt.raised \/ load_key_prefix.raised

private_salt == load_private_salt.value

key_prefix == load_key_prefix.value

delay_minutes == 5

NoKey == <<>>

InvalidKey == <<"invalid_key">>

(* an x-api-key header that is the empty string *)
EmptyHeader == <<>>

NoUser == [id |-> 0, email |-> "", hashed_password |-> <<>>]

(* Python's None as the value of a string attribute *)
None == <<>>

----------------------------------------------------------------------------
(* Pure functions *)

Sha256Hex(key_base) == <<"sha256", key_base>>

(* hashlib.sha256(...).hexdigest() has 64 characters *)
HexDigestLength == 64

(* len() of a key string, startswith() of a key string *)
StrLen(api_key) == Len(api_key[1]) + HexDigestLength

StartsWith(api_key, prefix) == api_key[1] = prefix

(* variant: the digest alone *)
generate_key_without_prefix(email) ==
    <<"", Sha256Hex(<<email, private_salt, now>>)>>

generate_key(email) ==
    <<key_prefix, Sha256Hex(<<email, private_salt, now>>)>>

get_password_hash(password) == <<"bcrypt", password>>

pwd_verify(password, hashed_password) ==
    hashed_password = <<"bcrypt", password>>

NextId(table) ==
    IF table = {} THEN 1
    ELSE 1 + (CHOOSE m \in {r.id : r \in table} :
                 \A n \in {r.id : r \in table} : n <= m)

UserById(user_id) ==
    IF \E u \in users : u.id = user_id
    THEN CHOOSE u \in users : u.id = user_id
    ELSE NoUser

KeysOf(user_id) == {k \in keys : k.user_id = user_id}

KeyStringsOf(user_id) == {k.api_key : k \in KeysOf(user_id)}

NewestKeysOf(user_id) ==
    {k \in KeysOf(user_id) :
        \A j \in KeysOf(user_id) : j.created_at <= k.created_at}

UserAPIKeys(id, user_id, api_key, created_at) ==
    [id |-> id, user_id |-> user_id, api_key |-> api_key,
     created_at |-> created_at]

(* What the latest call answered: its status, the user and key it was     *)
(* about, `held` = the key strings that user had before the call, and     *)
(* `before` = the key the directly preceding call returned when that call *)
(* was a first issuance by save_key for the same user (NoKey otherwise).  *)
Response(op, status, user_id, api_key, held) ==
    [op |-> op, status |-> status, user_id |-> user_id,
     api_key |-> api_key, held |-> held, before |-> NoKey]

(* variant: the password is not compared *)
verify_user_email_only(email, password) ==
    IF \E u \in users : u.email = email
    THEN CHOOSE u \in users : u.email = email
    ELSE NoUser

(* the user verify_user returns, NoUser when it raises ValueError         *)
(* "Credentials do not match!"; the returned object is the stored row     *)
(* with the attribute `password` set to None                              *)
verify_user(email, password) ==
    LET email_user == IF \E u \in users : u.email = email
                      THEN CHOOSE u \in users : u.email = email
                      ELSE NoUser
    IN  IF email_user # NoUser
           /\ pwd_verify(password, email_user.hashed_password)
        THEN [id |-> email_user.id, email |-> email_user.email,
              hashed_password |-> email_user.hashed_password,
              password |-> None]
        ELSE NoUser

(* variant: any row of the table, whoever owns it *)
get_user_api_key_any_user(user_id) ==
    IF keys = {}
    THEN {[status |-> 401, api_key |-> NoKey]}
    ELSE {[status |-> 200, api_key |-> user_api_key.api_key] :
            user_api_key \in keys}

(* get_user_api_key: first() of the user's rows, 401 when there is none *)
get_user_api_key(user_id) ==
    IF KeysOf(user_id) = {}
    THEN {[status |-> 401, api_key |-> NoKey]}
    ELSE {[status |-> 200, api_key |-> user_api_key.api_key] :
            user_api_key \in KeysOf(user_id)}

LoginAnswer(status, detail, id, email, api_key) ==
    [status |-> status, detail |-> detail, id |-> id, email |-> email,
     api_key |-> api_key]

(* variant: an unknown email is answered with 404 *)
login_user_unknown_email_not_found(email, password) ==
    LET authenticated_user == verify_user(email, password)
    IN  IF \A u \in users : u.email # email
        THEN {LoginAnswer(404, "User not found", 0, "", NoKey)}
        ELSE IF authenticated_user = NoUser
        THEN {LoginAnswer(400, "Credentials do not match!", 0, "", NoKey)}
        ELSE {IF r.status = 200
              THEN LoginAnswer(200, "", authenticated_user.id,
                               authenticated_user.email, r.api_key)
              ELSE LoginAnswer(500, "401: Invalid API Key", 0, "", NoKey) :
                r \in get_user_api_key(authenticated_user.id)}

(* the answers of the login route: ValueError becomes 400 with the        *)
(* error's message, any other exception (the HTTPException 401 of         *)
(* get_user_api_key too) becomes 500                                      *)
login_user(email, password) ==
    LET authenticated_user == verify_user(email, password)
    IN  IF authenticated_user = NoUser
        THEN {LoginAnswer(400, "Credentials do not match!", 0, "", NoKey)}
        ELSE {IF r.status = 200
              THEN LoginAnswer(200, "", authenticated_user.id,
                               authenticated_user.email, r.api_key)
              ELSE LoginAnswer(500, "401: Invalid API Key", 0, "", NoKey) :
                r \in get_user_api_key(authenticated_user.id)}

(* variant: the owner is looked up by the key row's id *)
verify_api_key_by_row_id(key_record) ==
    LET user == UserById(key_record.id)
    IN  IF user = NoUser THEN [status |-> 404, user_id |-> 0]
        ELSE [status |-> 200, user_id |-> user.id]

(* variant: a missing owner is reported like an unknown key *)
verify_api_key_owner_unauthorized(key_record) ==
    LET user == UserById(key_record.user_id)
    IN  IF user = NoUser THEN [status |-> 401, user_id |-> 0]
        ELSE [status |-> 200, user_id |-> user.id]

(* verify_api_key when the key query's first() yields key_record *)
verify_api_key(key_record) ==
    LET user == UserById(key_record.user_id)
    IN  IF user = NoUser THEN [status |-> 404, user_id |-> 0]
        ELSE [status |-> 200, user_id |-> user.id]

(* variant: an unknown key is reported as NotFound *)
VerifyOutcomes_unknown_not_found(api_key) ==
    LET matching == {k \in keys : k.api_key = api_key}
    IN  IF matching = {} THEN {[status |-> 404, user_id |-> 0]}
        ELSE {verify_api_key(key_record) : key_record \in matching}

(* every outcome verify_api_key(api_key) can have in the current state *)
VerifyOutcomes(api_key) ==
    LET matching == {k \in keys : k.api_key = api_key}
    IN  IF matching = {} THEN {[status |-> 401, user_id |-> 0]}
        ELSE {verify_api_key(key_record) : key_record \in matching}

(* variant: a key that matches no row is let through *)
validate_api_key_accepts_unknown(x_api_key) ==
    IF x_api_key = EmptyHeader \/ \A k \in keys : k.api_key # x_api_key
    THEN {[status |-> 200, user_id |-> 0]}
    ELSE VerifyOutcomes(x_api_key)

(* the dependency of the protected route: 401 for an empty header, else   *)
(* whatever verify_api_key returns or raises                              *)
validate_api_key(x_api_key) ==
    IF x_api_key = EmptyHeader
    THEN {[status |-> 401, user_id |-> 0]}
    ELSE VerifyOutcomes(x_api_key)

----------------------------------------------------------------------------
(* Handlers as functions of the state: each yields the set of outcomes     *)
(* [status, api_key, keys, ...] the call can have.  An unordered first()   *)
(* may yield any matching row; commit_ok = FALSE is a storage error raised *)
(* by db.commit().                                                         *)

(* variant: no check for an existing key *)
save_key_no_existing_check(user_id, user_table, commit_ok) ==
    LET owner == {u \in user_table : u.id = user_id}
    IN  IF owner = {}
        THEN {[status |-> 404, api_key |-> NoKey, keys |-> keys]}
        ELSE IF ~commit_ok
        THEN {[status |-> 500, api_key |-> NoKey, keys |-> keys]}
        ELSE {[status |-> 200, api_key |-> generate_key(user.email),
               keys |-> keys \cup
                   {UserAPIKeys(NextId(keys), user_id,
                                generate_key(user.email), now)}] :
              user \in owner}

(* variant: no check that the user exists *)
save_key_no_user_check(user_id, user_table, commit_ok) ==
    LET existing == KeysOf(user_id)
    IN  IF existing # {}
        THEN {[status |-> 200, api_key |-> existing_key.api_key,
               keys |-> keys] : existing_key \in existing}
        ELSE IF ~commit_ok
        THEN {[status |-> 500, api_key |-> NoKey, keys |-> keys]}
        ELSE {[status |-> 200, api_key |-> generate_key(""),
               keys |-> keys \cup
                   {UserAPIKeys(NextId(keys), user_id,
                                generate_key(""), now)}]}

(* variant: an existing row is overwritten with a newly generated key *)
save_key_overwrites_existing(user_id, user_table, commit_ok) ==
    LET existing == KeysOf(user_id)
        owner == {u \in user_table : u.id = user_id}
    IN  IF existing # {} /\ owner # {}
        THEN {[status |-> 200, api_key |-> generate_key(user.email),
               keys |-> (keys \ {existing_key}) \cup
                   {[existing_key EXCEPT
                        !.api_key = generate_key(user.email)]}] :
              existing_key \in existing, user \in owner}
        ELSE IF owner = {}
        THEN {[status |-> 404, api_key |-> NoKey, keys |-> keys]}
        ELSE IF ~commit_ok
        THEN {[status |-> 500, api_key |-> NoKey, keys |-> keys]}
        ELSE {[status |-> 200, api_key |-> generate_key(user.email),
               keys |-> keys \cup
                   {UserAPIKeys(NextId(keys), user_id,
                                generate_key(user.email), now)}] :
              user \in owner}

save_key(user_id, user_table, commit_ok) ==
    LET existing == KeysOf(user_id)
        owner == {u \in user_table : u.id = user_id}
    IN  IF existing # {}
        THEN {[status |-> 200, api_key |-> existing_key.api_key,
               keys |-> keys] : existing_key \in existing}
        ELSE IF owner = {}
        THEN {[status |-> 404, api_key |-> NoKey, keys |-> keys]}
        ELSE IF ~commit_ok
        THEN {[status |-> 500, api_key |-> NoKey, keys |-> keys]}
        ELSE {[status |-> 200, api_key |-> generate_key(user.email),
               keys |-> keys \cup
                   {UserAPIKeys(NextId(keys), user_id,
                                generate_key(user.email), now)}] :
              user \in owner}

(* variant: the old rows are deleted inside the call, before it returns *)
reset_key_cleans_up_before_return(email, password, commit_ok) ==
    LET current_user == verify_user(email, password)
        new_api_key == generate_key(current_user.email)
    IN  IF current_user = NoUser
        THEN [status |-> 400, api_key |-> NoKey, user_id |-> 0,
              keys |-> keys, tasks |-> tasks]
        ELSE IF ~commit_ok
        THEN [status |-> 500, api_key |-> NoKey, user_id |-> current_user.id,
              keys |-> keys, tasks |-> tasks]
        ELSE [status |-> 200, api_key |-> new_api_key,
              user_id |-> current_user.id,
              keys |-> (keys \ KeysOf(current_user.id)) \cup
                  {UserAPIKeys(NextId(keys), current_user.id,
                               new_api_key, now)},
              tasks |-> tasks \cup
                  {[id |-> NextId(tasks), user_id |-> current_user.id,
                    at |-> now, due |-> now + delay_minutes,
                    old |-> {k.api_key :
                                k \in NewestKeysOf(current_user.id)},
                    new |-> new_api_key, state |-> "deleted",
                    db |-> "request", released |-> FALSE]}]

(* variant: the user's row is updated in place, no row is added to it *)
reset_key_updates_in_place(email, password, commit_ok) ==
    LET current_user == verify_user(email, password)
        new_api_key == generate_key(current_user.email)
        existing == KeysOf(current_user.id)
    IN  IF current_user = NoUser
        THEN [status |-> 400, api_key |-> NoKey, user_id |-> 0,
              keys |-> keys, tasks |-> tasks]
        ELSE IF ~commit_ok
        THEN [status |-> 500, api_key |-> NoKey, user_id |-> current_user.id,
              keys |-> keys, tasks |-> tasks]
        ELSE [status |-> 200, api_key |-> new_api_key,
              user_id |-> current_user.id,
              keys |-> IF existing = {}
                       THEN keys \cup
                              {UserAPIKeys(NextId(keys), current_user.id,
                                           new_api_key, now)}
                       ELSE (keys \ existing) \cup
                              {[k EXCEPT !.api_key = new_api_key,
                                         !.created_at = now] :
                                  k \in existing},
              tasks |-> tasks \cup
                  {[id |-> NextId(tasks), user_id |-> current_user.id,
                    at |-> now, due |-> now + delay_minutes,
                    old |-> {k.api_key :
                                k \in NewestKeysOf(current_user.id)},
                    new |-> new_api_key, state |-> "sleeping",
                    db |-> "request", released |-> FALSE]}]

(* variant: the cleanup is scheduled before the commit is attempted *)
reset_key_schedules_before_commit(email, password, commit_ok) ==
    LET current_user == verify_user(email, password)
        new_api_key == generate_key(current_user.email)
        scheduled == tasks \cup
                  {[id |-> NextId(tasks), user_id |-> current_user.id,
                    at |-> now, due |-> now + delay_minutes,
                    old |-> {k.api_key :
                                k \in NewestKeysOf(current_user.id)},
                    new |-> new_api_key, state |-> "sleeping",
                    db |-> "request", released |-> FALSE]}
    IN  IF current_user = NoUser
        THEN [status |-> 400, api_key |-> NoKey, user_id |-> 0,
              keys |-> keys, tasks |-> tasks]
        ELSE IF ~commit_ok
        THEN [status |-> 500, api_key |-> NoKey, user_id |-> current_user.id,
              keys |-> keys, tasks |-> scheduled]
        ELSE [status |-> 200, api_key |-> new_api_key,
              user_id |-> current_user.id,
              keys |-> keys \cup
                  {UserAPIKeys(NextId(keys), current_user.id,
                               new_api_key, now)},
              tasks |-> scheduled]

reset_key(email, password, commit_ok) ==
    LET current_user == verify_user(email, password)
        new_api_key == generate_key(current_user.email)
    IN  IF current_user = NoUser
        THEN [status |-> 400, api_key |-> NoKey, user_id |-> 0,
              keys |-> keys, tasks |-> tasks]
        ELSE IF ~commit_ok
        THEN [status |-> 500, api_key |-> NoKey, user_id |-> current_user.id,
              keys |-> keys, tasks |-> tasks]
        ELSE [status |-> 200, api_key |-> new_api_key,
              user_id |-> current_user.id,
              keys |-> keys \cup
                  {UserAPIKeys(NextId(keys), current_user.id,
                               new_api_key, now)},
              tasks |-> tasks \cup
                  {[id |-> NextId(tasks), user_id |-> current_user.id,
                    at |-> now, due |-> now + delay_minutes,
                    old |-> {k.api_key :
                                k \in NewestKeysOf(current_user.id)},
                    new |-> new_api_key, state |-> "sleeping",
                    db |-> "request", released |-> FALSE]}]

(* variant: ascending order, the oldest row is kept *)
delete_old_key_keep_oldest(user_id, db_ok) ==
    IF ~db_ok \/ KeysOf(user_id) = {}
    THEN {keys}
    ELSE {(keys \ KeysOf(user_id)) \cup {oldest} :
            oldest \in {k \in KeysOf(user_id) :
                \A j \in KeysOf(user_id) : k.created_at <= j.created_at}}

(* variant: offset(0), no row is spared *)
delete_old_key_no_offset(user_id, db_ok) ==
    IF ~db_ok \/ KeysOf(user_id) = {}
    THEN {keys}
    ELSE {keys \ KeysOf(user_id)}

(* variant: no rollback, the deletions made before the error stay *)
delete_old_key_no_rollback(user_id, db_ok) ==
    IF KeysOf(user_id) = {}
    THEN {keys}
    ELSE IF ~db_ok
    THEN {keys \ deleted :
            deleted \in SUBSET (KeysOf(user_id) \ NewestKeysOf(user_id))}
    ELSE {(keys \ KeysOf(user_id)) \cup {newest} :
            newest \in NewestKeysOf(user_id)}

(* variant: no filter on user_id, one row of the whole table is spared *)
delete_old_key_all_users(user_id, db_ok) ==
    IF ~db_ok \/ keys = {}
    THEN {keys}
    ELSE {{newest} :
            newest \in {k \in keys :
                \A j \in keys : j.created_at <= k.created_at}}

(* variant: limit(1) in place of offset(1), the newest row is deleted *)
delete_old_key_deletes_newest(user_id, db_ok) ==
    IF ~db_ok \/ KeysOf(user_id) = {}
    THEN {keys}
    ELSE {keys \ {newest} : newest \in NewestKeysOf(user_id)}

(* the rows delete_old_key deletes: all but index 0 of the user's rows in  *)
(* descending created_at order; rows of equal created_at come in any order *)
delete_old_key(user_id, db_ok) ==
    IF ~db_ok \/ KeysOf(user_id) = {}
    THEN {keys}
    ELSE {(keys \ KeysOf(user_id)) \cup {newest} :
            newest \in NewestKeysOf(user_id)}

----------------------------------------------------------------------------
(* State after construction: empty tables, no background task *)

Init ==
    /\ users = {}
    /\ keys = {}
    /\ tasks = {}
    /\ now = 0
    /\ last = Response("init", 0, 0, NoKey, {})
    /\ env = TestEnv
    /\ calls = {}

(* the clock advances by one tick *)
Tick ==
    /\ now < MaxTime
    /\ now' = now + 1
    /\ UNCHANGED <<users, keys, tasks, last, env, calls>>

(* Fixture stores as the unit tests build them, rows inserted directly:   *)
(* a key row may name a user id that has no User row.                     *)
MaxFixtureRows == 2

FixtureUsers ==
    {[id |-> 1, email |-> "user@email.com",
      hashed_password |-> get_password_hash("User@123")],
     [id |-> 2, email |-> "other@email.com",
      hashed_password |-> get_password_hash("Sadeepa@2004")]}

FixtureKeys == {<<"test_api_key_verify">>, <<"test_api_key_no_user">>}

FixtureTables ==
    {{UserAPIKeys(i, f[i].user_id, f[i].api_key, 0) : i \in DOMAIN f} :
        f \in UNION {[ids -> [user_id : {1, 2, NoSuchUserId},
                              api_key : FixtureKeys]] :
                        ids \in SUBSET (1 .. MaxFixtureRows)}}

InitVerify ==
    /\ users \in SUBSET FixtureUsers
    /\ keys \in FixtureTables
    /\ tasks = {}
    /\ now = 0
    /\ last = Response("init", 0, 0, NoKey, {})
    /\ env = TestEnv
    /\ calls = {}

(* variant: the email is not looked up before the insert *)
CreateUser_no_existing_check(email, password, commit_ok) ==
    LET new_user == [id |-> NextId(users), email |-> email,
                     hashed_password |-> get_password_hash(password)]
    IN  /\ UNCHANGED <<tasks, now, env, calls>>
        /\ users' = users \cup {new_user}
        /\ \E r \in save_key(new_user.id, users \cup {new_user}, commit_ok) :
              /\ Cardinality(r.keys) <= MaxKeys
              /\ keys' = r.keys
              /\ last' = Response("create_user", r.status,
                                  new_user.id, r.api_key, {})

(* variant: the user is inserted and no key is saved for it *)
CreateUser_no_save_key(email, password, commit_ok) ==
    LET new_user == [id |-> NextId(users), email |-> email,
                     hashed_password |-> get_password_hash(password)]
    IN  /\ UNCHANGED <<tasks, now, env, calls>>
        /\ IF \E u \in users : u.email = email
           THEN /\ last' = Response("create_user", 400, 0, NoKey, {})
                /\ UNCHANGED <<users, keys>>
           ELSE /\ users' = users \cup {new_user}
                /\ keys' = keys
                /\ last' = Response("create_user", 200, new_user.id,
                                    NoKey, {})

(* user_service.create_user followed by the route's error mapping;       *)
(* commit_ok = FALSE is a storage error in save_key's commit, after the   *)
(* user row has been committed; so is the ValueError of APIKeyManager(),  *)
(* which the route answers with 400                                       *)
CreateUser(email, password, commit_ok) ==
    LET new_user == [id |-> NextId(users), email |-> email,
                     hashed_password |-> get_password_hash(password)]
    IN  /\ UNCHANGED <<tasks, now, env, calls>>
        /\ IF \E u \in users : u.email = email
           THEN /\ last' = Response("create_user", 400, 0, NoKey, {})
                /\ UNCHANGED <<users, keys>>
           ELSE IF APIKeyManagerRaises
           THEN /\ users' = users \cup {new_user}
                /\ keys' = keys
                /\ last' = Response("create_user", 400, new_user.id,
                                    NoKey, {})
           ELSE /\ users' = users \cup {new_user}
                /\ \E r \in save_key(new_user.id, users \cup {new_user},
                                     commit_ok) :
                      /\ Cardinality(r.keys) <= MaxKeys
                      /\ keys' = r.keys
                      /\ last' = Response("create_user", r.status,
                                          new_user.id, r.api_key, {})

FirstIssued(user_id) ==
    IF /\ last.op \in {"save_key", "create_user"}
       /\ last.user_id = user_id
       /\ last.status = 200
       /\ last.held = {}
    THEN last.api_key
    ELSE NoKey

(* APIKeyManager().save_key(user_id, db); an exception that is no        *)
(* HTTPException (the constructor's ValueError) is recorded as 500        *)
SaveKey(user_id, commit_ok) ==
    /\ UNCHANGED <<users, tasks, now, env, calls>>
    /\ IF APIKeyManagerRaises
       THEN /\ keys' = keys
            /\ last' = Response("save_key", 500, user_id, NoKey,
                                KeyStringsOf(user_id))
       ELSE \E r \in save_key(user_id, users, commit_ok) :
              /\ Cardinality(r.keys) <= MaxKeys
              /\ keys' = r.keys
              /\ last' = [Response("save_key", r.status, user_id,
                                   r.api_key, KeyStringsOf(user_id))
                              EXCEPT !.before = FirstIssued(user_id)]

----------------------------------------------------------------------------
(* save_key step by step, for calls that run concurrently on sessions of   *)
(* their own: first the two queries (existing key, user), then the key    *)
(* generation with the insert and the commit.  A call that finds a key or *)
(* no user returns in its first step.                                     *)

Call(id, user_id, pc, email, status, api_key) ==
    [id |-> id, user_id |-> user_id, pc |-> pc, email |-> email,
     status |-> status, api_key |-> api_key]

SaveKeyCheck(id, user_id) ==
    /\ id \notin {c.id : c \in calls}
    /\ ~APIKeyManagerRaises
    /\ UNCHANGED <<users, keys, tasks, now, env>>
    /\ IF KeysOf(user_id) # {}
       THEN \E existing_key \in KeysOf(user_id) :
              /\ calls' = calls \cup
                    {Call(id, user_id, "returned", "", 200,
                          existing_key.api_key)}
              /\ last' = Response("save_key", 200, user_id,
                                  existing_key.api_key,
                                  KeyStringsOf(user_id))
       ELSE IF UserById(user_id) = NoUser
       THEN /\ calls' = calls \cup
                  {Call(id, user_id, "returned", "", 404, NoKey)}
            /\ last' = Response("save_key", 404, user_id, NoKey, {})
       ELSE /\ calls' = calls \cup
                  {Call(id, user_id, "checked", UserById(user_id).email,
                        0, NoKey)}
            /\ last' = last

SaveKeyInsert(call, commit_ok) ==
    LET api_key == generate_key(call.email)
        new_key == UserAPIKeys(NextId(keys), call.user_id, api_key, now)
    IN  /\ call \in calls
        /\ call.pc = "checked"
        /\ UNCHANGED <<users, tasks, now, env>>
        /\ IF commit_ok
           THEN /\ Cardinality(keys) < MaxKeys
                /\ keys' = keys \cup {new_key}
                /\ calls' = (calls \ {call}) \cup
                      {[call EXCEPT !.pc = "inserted", !.status = 200,
                                    !.api_key = api_key]}
                /\ last' = Response("save_key", 200, call.user_id,
                                    api_key, KeyStringsOf(call.user_id))
           ELSE /\ keys' = keys
                /\ calls' = (calls \ {call}) \cup
                      {[call EXCEPT !.pc = "returned", !.status = 500]}
                /\ last' = Response("save_key", 500, call.user_id,
                                    NoKey, KeyStringsOf(call.user_id))

(* users as the test fixtures insert them, without a key *)
InitRace ==
    /\ users \in (SUBSET FixtureUsers) \ {{}}
    /\ keys = {}
    /\ tasks = {}
    /\ now = 0
    /\ last = Response("init", 0, 0, NoKey, {})
    /\ env = TestEnv
    /\ calls = {}

NextRace ==
    \/ Tick
    \/ \E id \in 1 .. MaxCalls, user_id \in UserIds :
            SaveKeyCheck(id, user_id)
    \/ \E call \in calls, commit_ok \in BOOLEAN :
            SaveKeyInsert(call, commit_ok)

SpecRace == InitRace /\ [][NextRace]_vars

----------------------------------------------------------------------------
(* create_user step by step, for registrations that run concurrently on    *)
(* sessions of their own: the query for an existing user, then the insert  *)
(* of the User row with its commit, then save_key for the new user.  The   *)
(* column users.email is unique: a commit that would store a second row    *)
(* with an email raises IntegrityError, which the route answers with 500.  *)

RegisterCall(id, email, password, pc, user_id, status) ==
    [id |-> id, email |-> email, password |-> password, pc |-> pc,
     user_id |-> user_id, status |-> status]

CreateUserCheck(id, email, password) ==
    /\ id \notin {c.id : c \in calls}
    /\ UNCHANGED <<users, keys, tasks, now, env>>
    /\ IF \E u \in users : u.email = email
       THEN /\ calls' = calls \cup
                  {RegisterCall(id, email, password, "returned", 0, 400)}
            /\ last' = Response("create_user", 400, 0, NoKey, {})
       ELSE /\ calls' = calls \cup
                  {RegisterCall(id, email, password, "checked", 0, 0)}
            /\ last' = last

(* variant: the column is not unique, the second row is stored *)
CreateUserInsert_not_unique(call) ==
    LET new_user == [id |-> NextId(users), email |-> call.email,
                     hashed_password |-> get_password_hash(call.password)]
    IN  /\ call \in calls
        /\ call.pc = "checked"
        /\ UNCHANGED <<keys, tasks, now, env>>
        /\ users' = users \cup {new_user}
        /\ calls' = (calls \ {call}) \cup
              {[call EXCEPT !.pc = "inserted", !.user_id = new_user.id]}
        /\ last' = last

CreateUserInsert(call) ==
    LET new_user == [id |-> NextId(users), email |-> call.email,
                     hashed_password |-> get_password_hash(call.password)]
    IN  /\ call \in calls
        /\ call.pc = "checked"
        /\ UNCHANGED <<keys, tasks, now, env>>
        /\ IF \E u \in users : u.email = call.email
           THEN /\ users' = users
                /\ calls' = (calls \ {call}) \cup
                      {[call EXCEPT !.pc = "returned", !.status = 500]}
                /\ last' = Response("create_user", 500, 0, NoKey, {})
           ELSE /\ users' = users \cup {new_user}
                /\ calls' = (calls \ {call}) \cup
                      {[call EXCEPT !.pc = "inserted",
                                    !.user_id = new_user.id]}
                /\ last' = last

CreateUserSaveKey(call, commit_ok) ==
    /\ call \in calls
    /\ call.pc = "inserted"
    /\ UNCHANGED <<users, tasks, now, env>>
    /\ IF APIKeyManagerRaises
       THEN /\ keys' = keys
            /\ calls' = (calls \ {call}) \cup
                  {[call EXCEPT !.pc = "returned", !.status = 400]}
            /\ last' = Response("create_user", 400, call.user_id, NoKey, {})
       ELSE \E r \in save_key(call.user_id, users, commit_ok) :
              /\ Cardinality(r.keys) <= MaxKeys
              /\ keys' = r.keys
              /\ calls' = (calls \ {call}) \cup
                    {[call EXCEPT !.pc = "returned", !.status = r.status]}
              /\ last' = Response("create_user", r.status, call.user_id,
                                  r.api_key, {})

NextRegister ==
    \/ Tick
    \/ \E id \in 1 .. MaxCalls, user_data \in RegisterRequests :
            CreateUserCheck(id, user_data.email, user_data.password)
    \/ \E call \in calls : CreateUserInsert(call)
    \/ \E call \in calls, commit_ok \in BOOLEAN :
            CreateUserSaveKey(call, commit_ok)

SpecRegister == Init /\ [][NextRegister]_vars

(* APIKeyManager().reset_key(user, db, background_tasks) *)
ResetKey(email, password, commit_ok) ==
    LET r == reset_key(email, password, commit_ok)
    IN  /\ UNCHANGED <<users, now, env, calls>>
        /\ IF APIKeyManagerRaises
           THEN /\ UNCHANGED <<keys, tasks>>
                /\ last' = Response("reset_key", 500, 0, NoKey, {})
           ELSE /\ Cardinality(r.keys) <= MaxKeys
                /\ Cardinality(r.tasks) <= MaxRotations
                /\ keys' = r.keys
                /\ tasks' = r.tasks
                /\ last' = Response("reset_key", r.status, r.user_id,
                                    r.api_key, KeyStringsOf(r.user_id))

(* variant: a later rotation of the same user cancels the task *)
DeleteOldKey_cancelled_by_later_rotation(task, db_ok) ==
    /\ task \in tasks
    /\ task.state = "sleeping"
    /\ now >= task.due
    /\ \A t \in tasks : t.user_id = task.user_id => t.id <= task.id
    /\ \E remaining \in delete_old_key(task.user_id, db_ok) :
          keys' = remaining
    /\ tasks' = (tasks \ {task}) \cup
          {[task EXCEPT !.state = IF db_ok THEN "deleted" ELSE "failed"]}
    /\ last' = Response("delete_old_key", IF db_ok THEN 200 ELSE 500,
                        task.user_id, NoKey, KeyStringsOf(task.user_id))
    /\ UNCHANGED <<users, now, env, calls>>

(* the background task: asyncio.sleep, then the deletion *)
DeleteOldKey(task, db_ok) ==
    /\ task \in tasks
    /\ task.state = "sleeping"
    /\ now >= task.due
    /\ \E remaining \in delete_old_key(task.user_id, db_ok) :
          keys' = remaining
    /\ tasks' = (tasks \ {task}) \cup
          {[task EXCEPT !.state = IF db_ok THEN "deleted" ELSE "failed"]}
    /\ last' = Response("delete_old_key", IF db_ok THEN 200 ELSE 500,
                        task.user_id, NoKey, KeyStringsOf(task.user_id))
    /\ UNCHANGED <<users, now, env, calls>>

(* variant: a key is used up by its successful verification *)
VerifyApiKey_single_use(api_key) ==
    /\ \E out \in VerifyOutcomes(api_key) :
          /\ last' = Response("verify_api_key", out.status, out.user_id,
                              api_key, {})
          /\ keys' = IF out.status = 200
                     THEN {k \in keys : k.api_key # api_key}
                     ELSE keys
    /\ UNCHANGED <<users, tasks, now, env, calls>>

VerifyApiKey(api_key) ==
    /\ \E out \in VerifyOutcomes(api_key) :
          last' = Response("verify_api_key", out.status, out.user_id,
                           api_key, {})
    /\ UNCHANGED <<users, keys, tasks, now, env, calls>>

LoginUser(email, password) ==
    /\ \E out \in login_user(email, password) :
          last' = Response("login", out.status, out.id, out.api_key,
                           KeyStringsOf(out.id))
    /\ UNCHANGED <<users, keys, tasks, now, env, calls>>

(* key strings a caller may present: stored ones, superseded ones, a bogus one *)
PresentedKeys ==
    {k.api_key : k \in keys}
        \cup UNION {t.old \cup {t.new} : t \in tasks}
        \cup {InvalidKey}

Next ==
    \/ Tick
    \/ \E user_data \in RegisterRequests, commit_ok \in BOOLEAN :
            CreateUser(user_data.email, user_data.password, commit_ok)
    \/ \E user_id \in UserIds, commit_ok \in BOOLEAN :
            SaveKey(user_id, commit_ok)
    \/ \E email \in Emails, password \in Passwords, commit_ok \in BOOLEAN :
            ResetKey(email, password, commit_ok)
    \/ \E task \in tasks, db_ok \in BOOLEAN : DeleteOldKey(task, db_ok)
    \/ \E api_key \in PresentedKeys : VerifyApiKey(api_key)

Spec == Init /\ [][Next]_vars

NextVerify ==
    \E api_key \in FixtureKeys \cup {InvalidKey} : VerifyApiKey(api_key)

SpecVerify == InitVerify /\ [][NextVerify]_vars

----------------------------------------------------------------------------
(* Deleting a user through the session, db.delete(user); db.commit(): the  *)
(* relationship User.api_keys has cascade "all, delete-orphan", so the     *)
(* session deletes the user's key rows with the user row.                  *)

(* variant: the relationship does not cascade *)
delete_user_no_cascade(user) ==
    [users |-> users \ {user}, keys |-> keys]

delete_user(user) ==
    [users |-> users \ {user}, keys |-> keys \ KeysOf(user.id)]

DeleteUser(user) ==
    /\ user \in users
    /\ users' = delete_user(user).users
    /\ keys' = delete_user(user).keys
    /\ last' = Response("delete_user", 200, user.id, NoKey,
                        KeyStringsOf(user.id))
    /\ UNCHANGED <<tasks, now, env, calls>>

(* Stores as the application leaves them: every key row belongs to a     *)
(* stored user and holds a key generated from that user's email at the    *)
(* row's creation time; a user may have no row, one row or several.       *)
IssuedKey(email, created_at) ==
    <<TestEnv.API_KEY_PREFIX,
      Sha256Hex(<<email, TestEnv.API_SALT, created_at>>)>>

IssuedTables(user_table) ==
    {{UserAPIKeys(i, f[i].user.id, IssuedKey(f[i].user.email, f[i].at),
                  f[i].at) : i \in DOMAIN f} :
        f \in UNION {[ids -> [user : user_table, at : 0 .. 1]] :
                        ids \in SUBSET (1 .. MaxFixtureRows)}}

InitDelete ==
    /\ users \in SUBSET FixtureUsers
    /\ keys \in IssuedTables(users)
    /\ tasks = {}
    /\ now = 1
    /\ last = Response("init", 0, 0, NoKey, {})
    /\ env = TestEnv
    /\ calls = {}

(* deletion of users, registration (a deleted user's id may be given to   *)
(* the next user) and verification of stored and of just deleted keys     *)
NextDelete ==
    \/ \E user \in users : DeleteUser(user)
    \/ \E user_data \in RegisterRequests, commit_ok \in BOOLEAN :
            /\ NextId(users) <= MaxUserId
            /\ CreateUser(user_data.email, user_data.password, commit_ok)
    \/ \E api_key \in PresentedKeys \cup last.held : VerifyApiKey(api_key)

SpecDelete == InitDelete /\ [][NextDelete]_vars

----------------------------------------------------------------------------
(* Managers constructed in any environment, at any clock reading *)

InitConfig ==
    /\ users = {}
    /\ keys = {}
    /\ tasks = {}
    /\ now \in 0 .. MaxTime
    /\ last = Response("init", 0, 0, NoKey, {})
    /\ env \in Environments
    /\ calls = {}

NextConfig ==
    \/ \E user_data \in RegisterRequests, commit_ok \in BOOLEAN :
            CreateUser(user_data.email, user_data.password, commit_ok)
    \/ \E user_id \in UserIds, commit_ok \in BOOLEAN :
            SaveKey(user_id, commit_ok)
    \/ \E email \in Emails, password \in Passwords, commit_ok \in BOOLEAN :
            ResetKey(email, password, commit_ok)

SpecConfig == InitConfig /\ [][NextConfig]_vars

----------------------------------------------------------------------------
(* Scheduling of the cleanup tasks.  A task added to BackgroundTasks is a  *)
(* coroutine the event loop runs after the response: asyncio.sleep ends    *)
(* when the clock has reached the task's due time, and the loop then runs  *)
(* the rest of the coroutine.  Time passes as long as a task is sleeping,  *)
(* and a task that is due is run.                                          *)

Sleep ==
    /\ \E t \in tasks : t.state = "sleeping" /\ now < t.due
    /\ now' = now + 1
    /\ UNCHANGED <<users, keys, tasks, last, env, calls>>

RunDueTask == \E task \in tasks, db_ok \in BOOLEAN : DeleteOldKey(task, db_ok)

(* The store the rotations start from: registered users, each with the    *)
(* key of their registration or, when storing it failed, without one.     *)
InitLive ==
    /\ users \in (SUBSET FixtureUsers) \ {{}}
    /\ keys \in {table \in IssuedTables(users) :
                    \A k1 \in table, k2 \in table :
                       /\ k1.created_at = 0
                       /\ k1.user_id = k2.user_id => k1 = k2}
    /\ tasks = {}
    /\ now = 0
    /\ last = Response("init", 0, 0, NoKey, {})
    /\ env = TestEnv
    /\ calls = {}

NextLive ==
    \/ Sleep
    \/ \E email \in Emails, password \in Passwords, commit_ok \in BOOLEAN :
            ResetKey(email, password, commit_ok)
    \/ RunDueTask

SpecLive ==
    /\ InitLive
    /\ [][NextLive]_vars
    /\ WF_vars(Sleep)
    /\ WF_vars(RunDueTask)

----------------------------------------------------------------------------
(* The HTTP routes: register, login and reset-api-key behind the          *)
(* x-api-key gate, with the cleanup tasks the rotations schedule.         *)

(* POST /reset-api-key: Depends(validate_api_key) runs before the body of *)
(* the route; the body rotates the key of the user named by the           *)
(* credentials and answers with the email of the user named by the header *)
(* (user_id of the answer is that user's id).  The session of the request *)
(* comes from get_db, which closes it when the request is over: the task  *)
(* the rotation scheduled holds a released session.                       *)
ResetApiKey(x_api_key, email, password, commit_ok) ==
    /\ UNCHANGED <<users, now, env, calls>>
    /\ \E user \in validate_api_key(x_api_key) :
          IF user.status # 200
          THEN /\ UNCHANGED <<keys, tasks>>
               /\ last' = Response("reset_api_key", user.status, 0,
                                   NoKey, {})
          ELSE IF APIKeyManagerRaises
          THEN /\ UNCHANGED <<keys, tasks>>
               /\ last' = Response("reset_api_key", 500, 0, NoKey, {})
          ELSE LET r == reset_key(email, password, commit_ok)
               IN  /\ Cardinality(r.keys) <= MaxKeys
                   /\ Cardinality(r.tasks) <= MaxRotations
                   /\ keys' = r.keys
                   /\ tasks' = {IF t \in tasks THEN t
                                 ELSE [t EXCEPT !.released = TRUE] :
                                    t \in r.tasks}
                   /\ last' = Response("reset_api_key", r.status,
                                       user.user_id, r.api_key,
                                       KeyStringsOf(r.user_id))

HeaderKeys == PresentedKeys \cup {EmptyHeader}

NextRoutes ==
    \/ Tick
    \/ \E user_data \in RegisterRequests, commit_ok \in BOOLEAN :
            CreateUser(user_data.email, user_data.password, commit_ok)
    \/ \E email \in Emails, password \in Passwords :
            LoginUser(email, password)
    \/ \E x_api_key \in HeaderKeys, email \in Emails,
          password \in Passwords, commit_ok \in BOOLEAN :
            ResetApiKey(x_api_key, email, password, commit_ok)
    \/ \E task \in tasks, db_ok \in BOOLEAN : DeleteOldKey(task, db_ok)

SpecRoutes == Init /\ [][NextRoutes]_vars

TypeOK ==
    /\ now \in 0 .. MaxTime
    /\ \A k \in keys : k.created_at <= now
    /\ Cardinality(keys) <= MaxKeys

----------------------------------------------------------------------------
(* Properties *)

Ok(user_id) == [status |-> 200, user_id |-> user_id]

Unauthorized == [status |-> 401, user_id |-> 0]

(* C1: when save_key(U) directly follows a save_key(U) that issued U's   *)
(* first key, it returns the same key string and U has exactly one row.  *)
C1_IdempotentIssuance ==
    (last.op = "save_key" /\ last.before # NoKey) =>
        /\ last.status = 200
        /\ last.api_key = last.before
        /\ Cardinality(KeysOf(last.user_id)) = 1

C1_Witness ==
    /\ last.op = "save_key"
    /\ last.before # NoKey
    /\ last.status = 200

(* C2: from the moment reset_key returns until the grace period of that  *)
(* rotation has elapsed, the key it superseded and the key it returned   *)
(* both verify as the rotated user.                                      *)
C2_GraceWindow ==
    \A t \in tasks :
        now < t.at + delay_minutes =>
            \A k \in t.old \cup {t.new} :
                VerifyOutcomes(k) = {Ok(t.user_id)}

(* C3: once the cleanup of U's latest rotation has deleted, the key that *)
(* rotation superseded is rejected with 401 and the key it returned      *)
(* still verifies as U.                                                  *)
C3_AfterCleanup ==
    \A t \in tasks :
        (/\ t.state = "deleted"
         /\ \A t2 \in tasks : t2.user_id = t.user_id => t2.id <= t.id) =>
            /\ VerifyOutcomes(t.new) = {Ok(t.user_id)}
            /\ \A k \in t.old : VerifyOutcomes(k) = {Unauthorized}

(* C4: every key string stored in a row of user U verifies as U.         *)
C4_VerifyRoundTrip ==
    \A k \in keys :
        UserById(k.user_id) # NoUser =>
            VerifyOutcomes(k.api_key) = {Ok(k.user_id)}

C4_Witness ==
    /\ last.op = "verify_api_key"
    /\ last.status = 200
    /\ \E k \in keys : k.api_key = last.api_key /\ k.user_id = last.user_id
    /\ Cardinality(users) = 2

(* C5: verify_api_key of a key string that matches no row answers 401.   *)
C5_UnknownKeyUnauthorized ==
    (/\ last.op = "verify_api_key"
     /\ \A k \in keys : k.api_key # last.api_key) =>
        last.status = 401

C5_Witness ==
    /\ last.op = "verify_api_key"
    /\ \A k \in keys : k.api_key # last.api_key
    /\ keys # {}

(* C6: verify_api_key of a key string whose rows all name a missing user *)
(* answers 404, not the 401 of an unknown key.                           *)
C6_OwnerMissingNotFound ==
    (/\ last.op = "verify_api_key"
     /\ \E k \in keys : k.api_key = last.api_key
     /\ \A k \in keys : k.api_key = last.api_key =>
                           \A u \in users : u.id # k.user_id) =>
        last.status = 404

C6_Witness ==
    /\ last.op = "verify_api_key"
    /\ last.status = 404
    /\ \E k \in keys : k.api_key = last.api_key
    /\ users # {}

BadCredentials(email, password) ==
    \A u \in users :
        u.email # email \/ u.hashed_password # get_password_hash(password)

(* C7: reset_key with an unknown email or a wrong password answers 400,  *)
(* inserts no key row and schedules no cleanup task.                     *)
C7_ResetBadCredentials ==
    [][last'.op = "reset_key" =>
         \A email \in Emails, password \in Passwords, commit_ok \in BOOLEAN :
            (BadCredentials(email, password)
                /\ ResetKey(email, password, commit_ok)) =>
                  /\ last'.status = 400
                  /\ keys' = keys
                  /\ tasks' = tasks]_vars

C7_Witness ==
    /\ last.op = "reset_key"
    /\ last.status = 400
    /\ users # {}

(* C8: a successful reset_key returns a key string the user did not hold *)
(* before the call, and a row with that string and the user's id exists. *)
C8_ResetReturnsFreshKey ==
    (last.op = "reset_key" /\ last.status = 200) =>
        /\ last.api_key \notin last.held
        /\ \E k \in keys :
              k.api_key = last.api_key /\ k.user_id = last.user_id

(* C9: a delete_old_key(U) that meets no storage error leaves exactly    *)
(* one row of U, one whose created_at was greatest among U's rows.       *)
C9_CleanupKeepsNewest ==
    [][last'.op = "delete_old_key" =>
         \A t \in tasks :
            DeleteOldKey(t, TRUE) =>
              \E k \in KeysOf(t.user_id) :
                /\ \A j \in KeysOf(t.user_id) : j.created_at <= k.created_at
                /\ {r \in keys' : r.user_id = t.user_id} = {k}]_vars

C9_Witness ==
    /\ last.op = "delete_old_key"
    /\ last.status = 200
    /\ Cardinality(last.held) >= 2
    /\ Cardinality(KeysOf(last.user_id)) = 1

(* C10: save_key for a user id without User row answers 404 and inserts  *)
(* no key row.                                                           *)
C10_SaveKeyUnknownUser ==
    [][last'.op = "save_key" =>
         \A user_id \in UserIds, commit_ok \in BOOLEAN :
            ((\A u \in users : u.id # user_id)
                /\ SaveKey(user_id, commit_ok)) =>
                  /\ last'.status = 404
                  /\ keys' = keys]_vars

C10_Witness ==
    /\ last.op = "save_key"
    /\ last.status = 404
    /\ keys # {}

(* C11: create_user with an email that already has a User row answers    *)
(* 400, inserts no User row and issues no key.                           *)
C11_DuplicateRegistration ==
    [][last'.op = "create_user" =>
         \A user_data \in RegisterRequests, commit_ok \in BOOLEAN :
            ((\E u \in users : u.email = user_data.email)
                /\ CreateUser(user_data.email, user_data.password,
                              commit_ok)) =>
                  /\ last'.status = 400
                  /\ users' = users
                  /\ keys' = keys]_vars

C11_Witness ==
    /\ last.op = "create_user"
    /\ last.status = 400
    /\ users # {}

(* C12: after a create_user that succeeded, the new User row exists, the *)
(* user has exactly one key row, and that key verifies as the new user.  *)
C12_EagerIssuance ==
    (last.op = "create_user" /\ last.status = 200) =>
        /\ \E u \in users : u.id = last.user_id
        /\ Cardinality(KeysOf(last.user_id)) = 1
        /\ \A k \in KeysOf(last.user_id) :
              VerifyOutcomes(k.api_key) = {Ok(last.user_id)}

C12_Witness ==
    /\ last.op = "create_user"
    /\ last.status = 200
    /\ Cardinality(users) = 2
    /\ Cardinality(KeysOf(last.user_id)) = 1

(* C13: no key row outlives its user (so verify_api_key never answers    *)
(* 404), and once user U is deleted no row of U is left and each of the  *)
(* key strings U held is rejected with 401.                              *)
C13_CascadeDelete ==
    /\ \A k \in keys : UserById(k.user_id) # NoUser
    /\ last.op = "delete_user" =>
          /\ UserById(last.user_id) = NoUser
          /\ KeysOf(last.user_id) = {}
          /\ \A k \in last.held : VerifyOutcomes(k) = {Unauthorized}

C13_Witness ==
    /\ last.op = "delete_user"
    /\ last.held # {}
    /\ keys # {}

MismatchAnswer ==
    LoginAnswer(400, "Credentials do not match!", 0, "", NoKey)

(* C14: verify_user raises the same error, and the login route gives the *)
(* same answer, for an unknown email as for a known email with a wrong   *)
(* password.                                                             *)
C14_UniformMismatch ==
    \A email \in Emails, password \in Passwords :
        BadCredentials(email, password) =>
            /\ verify_user(email, password) = NoUser
            /\ login_user(email, password) = {MismatchAnswer}

C14_Witness ==
    /\ last.op = "login"
    /\ last.status = 400
    /\ \E email \in Emails : \A u \in users : u.email # email
    /\ \E u \in users, password \in Passwords :
          ~pwd_verify(password, u.hashed_password)

(* C15: the user verify_user returns has the given email and its         *)
(* password hash is cleared.                                             *)
C15_HashCleared ==
    \A email \in Emails, password \in Passwords :
        verify_user(email, password) # NoUser =>
            /\ verify_user(email, password).email = email
            /\ verify_user(email, password).hashed_password = None

(* C18: a reset-api-key request whose x-api-key header is empty or       *)
(* matches no stored key answers 401, inserts no key row and schedules   *)
(* no cleanup task: a reset-api-key step that is anything else than a    *)
(* 401 leaving both tables alone is the step of no such request.         *)
C18_AuthenticationGate ==
    [][(/\ last'.op = "reset_api_key"
        /\ ~(last'.status = 401 /\ keys' = keys /\ tasks' = tasks)) =>
         \A x_api_key \in HeaderKeys :
            (x_api_key = EmptyHeader
                \/ \A k \in keys : k.api_key # x_api_key) =>
              \A email \in Emails, password \in Passwords,
                 commit_ok \in BOOLEAN :
                 ~ResetApiKey(x_api_key, email, password, commit_ok)]_vars

C18_Witness ==
    /\ last.op = "reset_api_key"
    /\ last.status = 401
    /\ keys # {}
    /\ tasks # {}

MissingSecret ==
    \E name \in {"API_SALT", "API_KEY_PREFIX"} :
        name \notin DOMAIN env \/ env[name] = ""

(* C16: when the salt or the prefix is unset or empty, APIKeyManager()   *)
(* raises, every call that constructs a manager fails, and no key is     *)
(* returned or stored.                                                   *)
C16_MissingSecret ==
    MissingSecret =>
        /\ APIKeyManagerRaises
        /\ keys = {}
        /\ last.api_key = NoKey
        /\ last.op # "init" => last.status \in {400, 500}

C16_Witness ==
    /\ MissingSecret
    /\ DOMAIN env = {"API_SALT", "API_KEY_PREFIX"}
    /\ last.op = "save_key"
    /\ users # {}

(* C17: every key generate_key returns, and so every key returned or     *)
(* stored, starts with the configured prefix and is longer than it.      *)
C17_KeyFormat ==
    ~APIKeyManagerRaises =>
        \A api_key \in {generate_key(email) : email \in Emails}
                           \cup {k.api_key : k \in keys}
                           \cup ({last.api_key} \ {NoKey}) :
            /\ StartsWith(api_key, env["API_KEY_PREFIX"])
            /\ StrLen(api_key) > Len(env["API_KEY_PREFIX"])

C17_Witness ==
    /\ ~APIKeyManagerRaises
    /\ env["API_KEY_PREFIX"] = "test_salt"
    /\ last.op = "reset_key"
    /\ last.status = 200
    /\ Cardinality(keys) = 2

(* C19: a rotation asked to use a zero grace period leaves only the new  *)
(* key valid at once.  reset_key has no grace period argument, so the    *)
(* request is an ordinary reset_key: right after it succeeds the         *)
(* returned key verifies as the user and every other key the user held   *)
(* is rejected with 401.                                                 *)
C19_ZeroGracePeriod ==
    (last.op = "reset_key" /\ last.status = 200) =>
        /\ VerifyOutcomes(last.api_key) = {Ok(last.user_id)}
        /\ \A k \in last.held \ {last.api_key} :
              VerifyOutcomes(k) = {Unauthorized}

(* C21: when two save_key calls for a user without key both pass the     *)
(* existence check before either inserts, and both return a key, the     *)
(* user has exactly one key row and both calls returned the same string. *)
C21_ConcurrentFirstIssuance ==
    \A c1 \in calls, c2 \in calls :
        (/\ c1.id # c2.id
         /\ c1.user_id = c2.user_id
         /\ c1.pc = "inserted"
         /\ c2.pc = "inserted") =>
            /\ Cardinality(KeysOf(c1.user_id)) = 1
            /\ c1.api_key = c2.api_key

(* C22: when reset_key is called for U at time t while the cleanup of an *)
(* earlier rotation of U is still sleeping, the key superseded at t      *)
(* verifies as U at every moment before t + delay_minutes.               *)
C22_OverlappingRotations ==
    \A t \in tasks, earlier \in tasks :
        (/\ earlier.user_id = t.user_id
         /\ earlier.id < t.id
         /\ t.at < earlier.due
         /\ now < t.at + delay_minutes) =>
            \A k \in t.old : VerifyOutcomes(k) = {Ok(t.user_id)}

(* C23: when the reset-api-key route answers 200, the user named in the  *)
(* answer (the user of the x-api-key header) owns the returned key.      *)
C23_HeaderUserIsRotatedUser ==
    (last.op = "reset_api_key" /\ last.status = 200) =>
        \A k \in keys :
            k.api_key = last.api_key => k.user_id = last.user_id

(* C24: every cleanup task has a session of its own, not the session of  *)
(* the request that scheduled it, and so never runs its deletion on a    *)
(* session that request has released.                                    *)
C24_TaskOwnSession ==
    \A t \in tasks :
        /\ t.db # "request"
        /\ t.state # "sleeping" => ~t.released

TasksOf(user_id) == {t \in tasks : t.user_id = user_id}

LatestTaskOf(user_id) ==
    CHOOSE t \in TasksOf(user_id) :
        \A t2 \in TasksOf(user_id) : t2.id <= t.id

(* C25: a user for whom no cleanup task is pending has at most one key   *)
(* row.                                                                  *)
C25_OneActiveKey ==
    \A u \in users :
        (\A t \in TasksOf(u.id) : t.state # "sleeping") =>
            Cardinality(KeysOf(u.id)) <= 1

C27_LoginReturnsNewKey ==
    \A u \in users :
        TasksOf(u.id) # {} =>
            /\ \A out \in get_user_api_key(u.id) :
                  out.api_key = LatestTaskOf(u.id).new
            /\ \A r \in save_key(u.id, users, TRUE) :
                  r.api_key = LatestTaskOf(u.id).new

(* C28: the key strings of the stored rows are pairwise distinct.        *)
C28_KeyUniqueness ==
    \A k1 \in keys, k2 \in keys :
        k1.api_key = k2.api_key => k1 = k2

(* C29: a delete_old_key that meets a storage error leaves the key store *)
(* as it was and ends in its own handler.                                *)
C29_CleanupFailureContained ==
    [][last'.op = "delete_old_key" =>
         \A t \in tasks :
            DeleteOldKey(t, FALSE) =>
              /\ keys' = keys
              /\ \E t2 \in tasks' : t2.id = t.id /\ t2.state = "failed"]_vars

C29_Witness ==
    /\ last.op = "delete_old_key"
    /\ last.status = 500
    /\ Cardinality(KeysOf(last.user_id)) = 2
    /\ \E t \in tasks : t.state = "failed"

(* C30: every cleanup task a successful reset_key scheduled eventually   *)
(* runs its deletion step, whatever requests and rotations come later.   *)
C30_CleanupEventuallyRuns ==
    \A id \in 1 .. MaxRotations :
        (\E t \in tasks : t.id = id /\ t.state = "sleeping")
            ~> (\E t \in tasks : t.id = id /\ t.state # "sleeping")

C30_Witness ==
    \E t \in tasks, later \in tasks :
        /\ t.user_id = later.user_id
        /\ t.id < later.id
        /\ t.due > later.at
        /\ t.state # "sleeping"

----------------------------------------------------------------------------
(* Frame conditions and error paths of the operations *)

(* C31: the cleanup a reset_key call schedules is still sleeping in the  *)
(* state in which that call answers with the new key, and a cleanup's    *)
(* deletion step is always a later step than the call that scheduled it. *)
C31_FireAndForget ==
    [][\A t \in tasks' :
          /\ (\A o \in tasks : o.id # t.id) =>
                /\ t.state = "sleeping"
                /\ last'.op = "reset_key"
                /\ last'.status = 200
                /\ last'.api_key = t.new
                /\ keys \subseteq keys'
          /\ t.state # "sleeping" =>
                \E o \in tasks : o.id = t.id]_vars

C31_Witness ==
    /\ last.op = "delete_old_key"
    /\ \E t \in tasks :
          /\ t.state = "deleted"
          /\ t.user_id = last.user_id
          /\ t.new \in KeyStringsOf(t.user_id)
          /\ t.at < now

(* C32: no two User rows share an email, also when registrations with    *)
(* the same email interleave and both pass the existence check before    *)
(* either inserts.                                                       *)
C32_EmailUnique ==
    \A u1 \in users, u2 \in users : u1.email = u2.email => u1 = u2

C32_Witness ==
    \E c1 \in calls, c2 \in calls :
        /\ c1.id # c2.id
        /\ c1.email = c2.email
        /\ c1.user_id # 0
        /\ c2.pc = "returned"
        /\ c2.status = 500
        /\ c2.user_id = 0

(* C33: a create_user that fails, for whatever reason, leaves the users  *)
(* table as it was before the call.                                      *)
C33_FailedRegistrationLeavesNoUser ==
    [][(last'.op = "create_user" /\ last'.status # 200) =>
          users' = users]_vars

(* C34: save_key for a user who has one or more key rows returns the key *)
(* string of one of these rows and changes neither the key store nor the *)
(* user store.                                                           *)
C34_SaveKeyWritesNothing ==
    [][(last'.op = "save_key" /\ last'.held # {}) =>
          /\ last'.status = 200
          /\ last'.api_key \in last'.held
          /\ keys' = keys
          /\ users' = users]_vars

C34_Witness ==
    /\ last.op = "save_key"
    /\ last.status = 200
    /\ Cardinality(last.held) = 2
    /\ last.held = KeyStringsOf(last.user_id)

(* C35: a reset_key that succeeds (it answers 200 and has scheduled its  *)
(* cleanup) adds exactly one key row, a row of the authenticated user    *)
(* holding the returned key, and leaves every earlier row as it was.     *)
C35_ResetInsertsOneRow ==
    [][(last'.op = "reset_key" /\ last'.status = 200 /\ tasks' # tasks) =>
          /\ keys \subseteq keys'
          /\ Cardinality(keys' \ keys) = 1
          /\ \A k \in keys' \ keys :
                /\ k.user_id = last'.user_id
                /\ k.api_key = last'.api_key]_vars

C35_Witness ==
    /\ last.op = "reset_key"
    /\ last.status = 200
    /\ last.held # {}
    /\ last.held \subseteq KeyStringsOf(last.user_id)
    /\ Cardinality(KeysOf(last.user_id)) = 2

(* C36: save_key, reset_key and delete_old_key performed for one user    *)
(* neither insert, change nor delete a key row of another user, and the  *)
(* outcomes of verify_api_key on the other users' keys stay the same.    *)
C36_CrossUserIndependence ==
    [][last'.op \in {"save_key", "reset_key", "delete_old_key"} =>
          \A k \in keys \cup keys' :
             k.user_id # last'.user_id =>
                /\ k \in keys
                /\ k \in keys'
                /\ VerifyOutcomes(k.api_key)' = VerifyOutcomes(k.api_key)]_vars

C36_Witness ==
    /\ last.op = "delete_old_key"
    /\ last.status = 200
    /\ KeysOf(last.user_id) # {}
    /\ \E k \in keys : k.user_id # last.user_id

(* C37: verify_api_key, whether it answers 200, 401 or 404, leaves the   *)
(* user store and the key store as they were.                            *)
C37_VerifyPureRead ==
    [][last'.op = "verify_api_key" =>
          /\ users' = users
          /\ keys' = keys]_vars

C37_Witness ==
    /\ last.op = "verify_api_key"
    /\ last.status = 200
    /\ Cardinality(keys) = 2
    /\ \E k \in keys : k.api_key # last.api_key

(* C38: no step of save_key, reset_key or delete_old_key, in whatever    *)
(* order they run, leaves a user without key row who had one before it.  *)
C38_NeverKeyless ==
    [][\A u \in users :
          KeysOf(u.id) # {} => \E k \in keys' : k.user_id = u.id]_vars

C38_Witness ==
    /\ last.op = "delete_old_key"
    /\ last.status = 200
    /\ last.held \ KeyStringsOf(last.user_id) # {}
    /\ KeysOf(last.user_id) # {}

(* C39: a reset_key with valid credentials whose commit meets a storage  *)
(* error answers 500, leaves the key store as it was and schedules no    *)
(* cleanup task: a reset_key step that is anything else than a 500       *)
(* leaving keys and tasks alone is the step of no such call.             *)
C39_ResetStorageFailure ==
    [][(/\ last'.op = "reset_key"
        /\ ~(last'.status = 500 /\ keys' = keys /\ tasks' = tasks)) =>
         \A email \in Emails, password \in Passwords :
            verify_user(email, password) # NoUser =>
               ~ResetKey(email, password, FALSE)]_vars

C39_Witness ==
    /\ last.op = "reset_key"
    /\ last.status = 500
    /\ last.held # {}
    /\ last.held = KeyStringsOf(last.user_id)
    /\ tasks # {}

(* C40: a login with the valid credentials of a user who has no key row  *)
(* answers 401 and creates no key row.                                   *)
C40_LoginWithoutKey ==
    [][last'.op = "login" =>
         \A email \in Emails, password \in Passwords :
            (/\ verify_user(email, password) # NoUser
             /\ KeysOf(verify_user(email, password).id) = {}
             /\ LoginUser(email, password)) =>
                  /\ last'.status = 401
                  /\ keys' = keys]_vars

====
